---- MODULE Spec2Model ----
(***************************************************************************)
(* Model of the GitHub protection agent backend:                           *)
(*   - FilecoinContractInterface: nonce cache, _get_nonce, _send_          *)
(*     transaction_with_retry and the operations that call it              *)
(*     (filecoin_contracts.py)                                             *)
(*   - BlockchainUtils.retry_transaction (blockchain_utilities.py)         *)
(*   - BlockchainManager: transaction-submitting operations                *)
(*     (blockchain_manager.py)                                             *)
(*   - EnhancedIPFSManager: upload_to_ipfs fallback chain and              *)
(*     _verify_ipfs_content_with_retry (enhanced_ipfs_manager.py)          *)
(*   - CompleteFilecoinAgent: register_repository_complete,                *)
(*     scan_and_report_violations, report_infringement_bounty and          *)
(*     run_full_protection_workflow (complete_filecoin_agent.py)           *)
(*   - BountySystem: submit_infringement_report and                        *)
(*     withdraw_reporter_bounty (bounty_system.py)                         *)
(* Each component has its own specification over the shared variables.     *)
(***************************************************************************)
EXTENDS Integers, Sequences, FiniteSets, TLC

\* Python's None, where a nonce is expected (nonces are naturals)
None == 0 - 1

\* no dictionary returned yet: read only once pc = "done"
NoResult == [success |-> FALSE, error |-> <<"no", "result">>]

Max(a, b) == IF a >= b THEN a ELSE b

(***************************************************************************)
(* Bounds of the model                                                     *)
(***************************************************************************)
\* largest max_retries argument a call is made with, besides the default
MaxRetriesArg == 2
\* the node accepts no transaction whose nonce reaches this value
MaxNonce == 2
\* number of calls of _send_transaction_with_retry made on the interface
MaxCalls == 2

(***************************************************************************)
(* Program constants of FilecoinContractInterface                          *)
(***************************************************************************)
NonceCacheTTL == 30
DefaultMaxRetries == 3
ReceiptTimeout == 300
NonceErrorDelay == 2
\* mutant: the delay after a nonce error is used after every error
RetryDelay_AsNonceError == NonceErrorDelay
RetryDelay == 1

\* The clock enters the code only as time.time() - self._last_nonce_update,
\* compared with NonceCacheTTL: the model keeps that difference, saturated just
\* above the lifetime (time.time() is seconds since the epoch, and
\* _last_nonce_update starts at 0).
AgeCap == NonceCacheTTL + 1
Elapse(age, d) == IF age + d >= AgeCap THEN AgeCap ELSE age + d

(***************************************************************************)
(* Error messages: str(e), as a sequence of words                          *)
(***************************************************************************)
MsgNonceTooLow == <<"nonce", "too", "low">>
MsgNonceExpired == <<"Nonce", "expired">>
MsgReverted == <<"execution", "reverted">>
MsgTimeExhausted == <<"not", "in", "the", "chain">>
MsgMaxRetries == <<"Max", "retries", "exceeded">>
MsgStatus0 == <<"Transaction", "failed", "(status", "0)">>
NoError == <<>>

\* what an RPC call (count query, gas estimate, send) or the signer can raise
RpcErrors == {MsgNonceTooLow, MsgNonceExpired, MsgReverted}

\* str.lower() on one word of the vocabulary above
Lower(w) ==
  CASE w = "Nonce" -> "nonce"
    [] w = "Max" -> "max"
    [] w = "Transaction" -> "transaction"
    [] OTHER -> w

\* `phrase in error_msg.lower()` for a phrase of whole words
ContainsLower(msg, phrase) ==
  \E i \in 1..Len(msg) :
    /\ i + Len(phrase) - 1 <= Len(msg)
    /\ \A j \in 1..Len(phrase) : Lower(msg[i + j - 1]) = phrase[j]

\* mutant: only the literal 'nonce too low' is recognised
IsNonceError_OnlyTooLow(msg) == ContainsLower(msg, <<"nonce", "too", "low">>)

\* filecoin_contracts.py:116
IsNonceError(msg) ==
  \/ ContainsLower(msg, <<"nonce", "too", "low">>)
  \/ ContainsLower(msg, <<"nonce">>)

(***************************************************************************)
(* State                                                                   *)
(***************************************************************************)
VARIABLES
  \* FilecoinContractInterface fields
  account,              \* self.account is set (PRIVATE_KEY configured)
  nonce_cache,          \* self._nonce_cache: None or a nonce
  nonce_age,            \* time.time() - self._last_nonce_update, up to AgeCap
  \* environment of the interface
  calls,                \* calls made so far
  chainLatest,          \* node: get_transaction_count(address, 'latest')
  chainPending,         \* node: get_transaction_count(address, 'pending')
  \* the running call of _send_transaction_with_retry
  operation,            \* the operation that returned without making one
  pc,                   \* "idle", "loop", "done", "raised"
  max_retries,          \* its argument
  attempt,              \* the loop variable
  result,               \* the dictionary returned
  \* what the call did (observations)
  builds,               \* transactions handed to transaction_builder
  submits,              \* send_raw_transaction calls
  receipts,             \* receipt statuses obtained
  nonce_from,           \* where the call's last attempt took its nonce from
  nonce_used,           \* the nonce of the call's last attempt
  last_err_nonce,       \* the last attempt made (of any call) raised a nonce error
  prev_err_nonce,       \* the attempt before the call's last one did so
  slept,                \* the last delay slept
  accepted_txs,         \* transaction hashes send_raw_transaction returned
  increments,           \* _increment_nonce calls
  first_nonce,          \* the nonce of the call's first attempt
  receipted_prev,       \* nonces earlier calls obtained a receipt for
  prev_success,         \* the nonce the previous call succeeded with, or None
  last_error            \* str(e) of the call's last attempt, NoError if none

\* _get_nonce called on its own
VARIABLES
  q_last                \* its last call: arguments, state before and after

\* the observations of a call
txObs == <<builds, submits, receipts, nonce_from, nonce_used, last_err_nonce,
           prev_err_nonce, slept, accepted_txs, increments, first_nonce,
           receipted_prev, prev_success, last_error>>

txVars == <<account, nonce_cache, nonce_age, calls, chainLatest, chainPending,
            operation, pc, max_retries, attempt, result, txObs>>

\* BlockchainManager (blockchain_manager.py) and its node
VARIABLES
  m_account,            \* self.account is set (WALLET_PRIVATE_KEY configured)
  m_has_gp,             \* GITHUB_PROTECTION_CONTRACT configured
  m_count,              \* node: get_transaction_count(self.address)
  m_op,                 \* the last operation called
  m_fn,                 \* the contract function it built a transaction for
  m_sent,               \* it handed a transaction to send_raw_transaction
  m_receipt,            \* status of the receipt it obtained, or None
  m_result              \* the dictionary it returned

mgrVars == <<m_account, m_has_gp, m_count, m_op, m_fn, m_sent, m_receipt, m_result>>

\* EnhancedIPFSManager (enhanced_ipfs_manager.py): upload_to_ipfs
VARIABLES
  pinata_api_key,       \* config has a PINATA_API_KEY
  pinata_api_secret,    \* config has a PINATA_API_SECRET
  web3_storage_token,   \* config has a WEB3_STORAGE_TOKEN
  service_priority,     \* self.service_priority
  u_pc,                 \* "idle", "loop", "done", "raised"
  u_path,               \* file_path
  u_exists,             \* os.path.exists(file_path)
  u_idx,                \* position of the loop in service_priority
  u_tried,              \* services attempted so far, with how each ended
  u_verified,           \* what Pinata's availability verification answered
  u_result,             \* the identifier returned
  u_error               \* the exception raised

ipfsVars == <<pinata_api_key, pinata_api_secret, web3_storage_token, service_priority,
              u_pc, u_path, u_exists, u_idx, u_tried, u_verified, u_result, u_error>>

\* EnhancedIPFSManager._verify_ipfs_content_with_retry
VARIABLES
  v_pc,                 \* "idle", "poll", "done"
  v_hash,               \* ipfs_hash
  v_file,               \* os.path.exists of the file a local:// hash names
  v_max_retries,        \* max_retries
  v_attempt,            \* the outer loop variable: the polling round
  v_gw,                 \* position of the inner loop in gateways[:2]
  v_requests,           \* requests.head calls made
  v_round_requests,     \* those of the current round
  v_saw200,             \* one of them answered 200
  v_responses,          \* what each of them met, in order
  v_sleeps,             \* time.sleep(5) calls made
  v_result              \* the value returned

verVars == <<v_pc, v_hash, v_file, v_max_retries, v_attempt, v_gw, v_requests,
             v_round_requests, v_saw200, v_responses, v_sleeps, v_result>>

\* CompleteFilecoinAgent: scan_and_report_violations, report_infringement_bounty
VARIABLES
  a_pc,                 \* "idle", "scan" (inside the loops of a scan), "done"
  a_op,                 \* "none", "scan", "bounty"
  a_repos,              \* repos still to scan, the current one first
  a_seen,               \* candidates the scan has looked at
  a_score,              \* similarity_score of the last comparison, None before
  a_dmca,               \* the last _generate_and_file_dmca call, NoDmca before
  a_dmca_calls,         \* _generate_and_file_dmca calls of the operation
  a_violations,         \* len(all_violations)
  a_reg,                \* what the last register_repository_complete did
  a_result              \* the dict returned

agentVars == <<a_pc, a_op, a_repos, a_seen, a_score, a_dmca, a_dmca_calls,
               a_violations, a_reg, a_result>>

\* BlockchainUtils.retry_transaction (blockchain_utilities.py)
VARIABLES
  r_pc,                 \* "idle", "loop", "returned", "raised"
  r_max_retries,        \* max_retries
  r_delay,              \* delay
  r_attempt,            \* the loop variable
  r_log,                \* how each invocation of func ended, in order
  r_waits,              \* the wait_time of each time.sleep, in order
  r_value,              \* the value returned
  r_exc                 \* the exception raised

retryVars == <<r_pc, r_max_retries, r_delay, r_attempt, r_log, r_waits, r_value, r_exc>>

\* BountySystem (bounty_system.py), over a BlockchainManager
VARIABLES
  b_links,              \* node: URLs whose LinkRegistry record has exists = True
  b_op,                 \* the last operation called
  b_args,               \* its arguments
  b_steps,              \* what it called after its checks, in order
  b_sent,               \* it had a transaction handed to send_raw_transaction
  b_reports,            \* len(self.verified_reports)
  b_result              \* the dictionary it returned

bountyVars == <<b_links, b_op, b_args, b_steps, b_sent, b_reports, b_result>>

\* CompleteFilecoinAgent.run_full_protection_workflow
VARIABLES
  w_pc,                 \* "idle", "audit", "scan", "scanning", "done"
  w_steps,              \* the steps called so far, in order
  w_registration,       \* registration['success']
  w_audit,              \* audit['success']: "none" before the audit
  w_result              \* the dict returned

workflowVars == <<w_pc, w_steps, w_registration, w_audit, w_result>>

vars == <<txVars, q_last, mgrVars, ipfsVars, verVars, agentVars, retryVars, bountyVars,
          workflowVars>>

\* what a step of one component leaves alone: the other components
exceptTx == <<q_last, mgrVars, ipfsVars, verVars, agentVars, retryVars, bountyVars, workflowVars>>
exceptMgr == <<txVars, q_last, ipfsVars, verVars, agentVars, retryVars, bountyVars, workflowVars>>
exceptIpfs == <<txVars, q_last, mgrVars, verVars, agentVars, retryVars, bountyVars, workflowVars>>
exceptVer == <<txVars, q_last, mgrVars, ipfsVars, agentVars, retryVars, bountyVars, workflowVars>>
exceptAgent == <<txVars, q_last, mgrVars, ipfsVars, verVars, retryVars, bountyVars, workflowVars>>
exceptRetry == <<txVars, q_last, mgrVars, ipfsVars, verVars, agentVars, bountyVars, workflowVars>>
exceptBounty == <<txVars, q_last, ipfsVars, verVars, agentVars, retryVars, workflowVars>>
exceptWorkflow == <<txVars, q_last, mgrVars, ipfsVars, verVars, retryVars, bountyVars>>

(***************************************************************************)
(* FilecoinContractInterface                                               *)
(***************************************************************************)

\* mutant: a cache of exactly the lifetime is refreshed
NeedsRefresh_AtLifetime(force_refresh, cache, age) ==
  \/ force_refresh
  \/ cache = None
  \/ age >= NonceCacheTTL

\* filecoin_contracts.py:63, age = current_time - self._last_nonce_update
NeedsRefresh(force_refresh, cache, age) ==
  \/ force_refresh
  \/ cache = None
  \/ age > NonceCacheTTL

\* _get_nonce: rpc says which count query answers: "pending", "latest" (the
\* pending query raised and the fallback answered) or "fail" (both raised).
\* age 0 in the result: self._last_nonce_update = current_time.
GetNonce(force_refresh, cache, age, rpc, pending, latest) ==
  IF NeedsRefresh(force_refresh, cache, age)
  THEN CASE rpc = "pending" ->
              [raised |-> FALSE, cache |-> pending, age |-> 0,
               nonce |-> pending, from |-> "query"]
         [] rpc = "latest" ->
              [raised |-> FALSE, cache |-> latest, age |-> age,
               nonce |-> latest, from |-> "query"]
         [] OTHER ->
              [raised |-> TRUE, cache |-> cache, age |-> age,
               nonce |-> None, from |-> "none"]
  ELSE [raised |-> FALSE, cache |-> cache, age |-> age,
        nonce |-> cache, from |-> "cache"]

\* mutant: the cache is advanced by two
IncrementNonce_ByTwo(cache) == IF cache # None THEN cache + 2 ELSE cache

\* mutant: the cache is left as it is
IncrementNonce_Noop(cache) == cache

\* _increment_nonce
IncrementNonce(cache) == IF cache # None THEN cache + 1 ELSE cache

\* mutant: one iteration too many
LoopRange_OffByOne(m) == 0..m

\* filecoin_contracts.py:82  range(max_retries)
LoopRange(m) == 0..(m - 1)

\* filecoin_contracts.py:85
ForceRefresh(a) == a > 0

\* mutant: any receipt counts as success
ReceiptSuccess_AnyReceipt(status) == status \in {0, 1}

\* filecoin_contracts.py:99
ReceiptSuccess(status) == status = 1

\* mutant: the cache survives a nonce error
CacheAfterNonceError_Kept(cache) == cache

\* filecoin_contracts.py:118
CacheAfterNonceError(cache) == None

\* mutant: the nonce lookup is made before the try block
TryBlockStages_NonceOutside == {"build", "sign", "send", "wait"}

\* filecoin_contracts.py:83-111: the steps of an attempt the try block covers
TryBlockStages == {"nonce", "build", "sign", "send", "wait"}

Stages == {"nonce", "build", "sign", "send", "wait", "receipt"}

\* mutant: the test for the last attempt never holds
IsLastAttempt_Never(k, m) == FALSE

\* filecoin_contracts.py:122  `if attempt == max_retries - 1`
IsLastAttempt(k, m) == k = m - 1

\* the call starts: the loop variable is about to take its first value
StartCall(m) ==
  /\ pc \in {"idle", "done", "raised"}
  /\ calls < MaxCalls
  /\ calls' = calls + 1
  /\ operation' = "none"
  /\ pc' = "loop"
  /\ max_retries' = m
  /\ attempt' = 0
  /\ result' = NoResult
  /\ builds' = 0
  /\ submits' = 0
  /\ receipts' = {}
  /\ slept' = 0
  /\ nonce_from' = "none"
  /\ nonce_used' = None
  /\ prev_err_nonce' = FALSE
  /\ accepted_txs' = 0
  /\ increments' = 0
  /\ first_nonce' = None
  /\ last_error' = NoError
  /\ receipted_prev' = IF receipts # {} THEN receipted_prev \cup {nonce_used}
                                        ELSE receipted_prev
  /\ prev_success' = IF result.success THEN nonce_used ELSE None
  /\ UNCHANGED <<account, nonce_cache, nonce_age, chainLatest, chainPending,
                 last_err_nonce>>

MsgNoAccount == <<"No", "account", "configured", "for", "transactions">>

Operations == {"register_repository_on_chain", "add_link_to_registry",
               "file_dmca_on_chain"}

\* mutant: file_dmca_on_chain lacks the check
RequiresAccount_NotDmca(o) == o # "file_dmca_on_chain"

\* filecoin_contracts.py:263, 316, 348  `if not self.account`
RequiresAccount(o) == o \in Operations

\* an operation up to its call of _send_transaction_with_retry, which it makes
\* with the default max_retries
CallOperation(o) ==
  IF RequiresAccount(o) /\ ~account
  THEN /\ pc \in {"idle", "done", "raised"}
       /\ operation' = o
       /\ pc' = "done"
       /\ result' = [success |-> FALSE, error |-> MsgNoAccount]
       /\ UNCHANGED <<account, nonce_cache, nonce_age, calls, chainLatest,
                      chainPending, max_retries, attempt, txObs>>
  ELSE StartCall(DefaultMaxRetries)

\* One iteration of the loop body. rpc: the count queries' outcome; stage: the
\* step the attempt ends at ("receipt": a receipt was obtained); msg: the
\* exception's message; status: the receipt's status.
Attempt(rpc, stage, msg, status) ==
  /\ pc = "loop"
  /\ attempt \in LoopRange(max_retries)
  /\ LET g == GetNonce(ForceRefresh(attempt), nonce_cache, nonce_age,
                       rpc, chainPending, chainLatest)
         accepted == stage \in {"wait", "receipt"}
         \* wait_for_transaction_receipt gives up after its timeout
         age1 == IF stage = "wait" THEN Elapse(g.age, ReceiptTimeout) ELSE g.age
     IN
     \* the environment: what the node and the signer can do
     /\ (stage = "nonce") <=> g.raised
     /\ ~NeedsRefresh(ForceRefresh(attempt), nonce_cache, nonce_age) => rpc = "pending"
     /\ accepted => (g.nonce >= chainLatest /\ g.nonce < MaxNonce)
     /\ stage = "wait" => msg = MsgTimeExhausted
     /\ stage \notin {"wait", "receipt"} => msg \in RpcErrors
     /\ stage = "receipt" => msg = NoError
     /\ stage # "receipt" => status = 0
     \* the node
     /\ chainPending' = IF accepted THEN Max(chainPending, g.nonce + 1) ELSE chainPending
     /\ chainLatest' = IF stage = "receipt" THEN g.nonce + 1 ELSE chainLatest
     \* observations
     /\ builds' = IF stage # "nonce" THEN builds + 1 ELSE builds
     /\ submits' = IF stage \in {"send", "wait", "receipt"} THEN submits + 1 ELSE submits
     /\ receipts' = IF stage = "receipt" THEN receipts \cup {status} ELSE receipts
     /\ nonce_from' = g.from
     /\ nonce_used' = g.nonce
     /\ prev_err_nonce' = last_err_nonce
     /\ last_err_nonce' = (stage # "receipt" /\ IsNonceError(msg))
     /\ accepted_txs' = IF accepted THEN accepted_txs + 1 ELSE accepted_txs
     /\ increments' = IF stage = "receipt" /\ ReceiptSuccess(status)
                          /\ IncrementNonce(g.cache) # g.cache
                       THEN increments + 1 ELSE increments
     /\ first_nonce' = IF attempt = 0 THEN g.nonce ELSE first_nonce
     /\ last_error' = msg
     /\ UNCHANGED <<receipted_prev, prev_success>>
     \* the code
     /\ IF stage = "receipt"
        THEN /\ nonce_cache' = IF ReceiptSuccess(status) THEN IncrementNonce(g.cache)
                                                         ELSE g.cache
             /\ result' = IF ReceiptSuccess(status)
                          THEN [success |-> TRUE, error |-> NoError]
                          ELSE [success |-> FALSE, error |-> MsgStatus0]
             /\ pc' = "done"
             /\ nonce_age' = age1
             /\ UNCHANGED <<attempt, slept>>
        ELSE IF stage \notin TryBlockStages
        THEN \* the exception leaves the call
             /\ pc' = "raised"
             /\ nonce_cache' = g.cache
             /\ nonce_age' = age1
             /\ UNCHANGED <<attempt, result, slept>>
        ELSE IF IsNonceError(msg)
        THEN /\ nonce_cache' = CacheAfterNonceError(g.cache)
             /\ slept' = NonceErrorDelay
             /\ nonce_age' = Elapse(age1, NonceErrorDelay)
             /\ attempt' = attempt + 1
             /\ UNCHANGED <<pc, result>>
        ELSE IF IsLastAttempt(attempt, max_retries)
        THEN /\ result' = [success |-> FALSE, error |-> msg]
             /\ pc' = "done"
             /\ nonce_cache' = g.cache
             /\ nonce_age' = age1
             /\ UNCHANGED <<attempt, slept>>
        ELSE /\ nonce_cache' = g.cache
             /\ slept' = RetryDelay
             /\ nonce_age' = Elapse(age1, RetryDelay)
             /\ attempt' = attempt + 1
             /\ UNCHANGED <<pc, result>>
  /\ UNCHANGED <<account, operation, max_retries, calls>>

\* filecoin_contracts.py:128: the loop ran out of values
LoopExhausted ==
  /\ pc = "loop"
  /\ attempt \notin LoopRange(max_retries)
  /\ result' = [success |-> FALSE, error |-> MsgMaxRetries]
  /\ pc' = "done"
  /\ UNCHANGED <<account, nonce_cache, nonce_age, calls, chainLatest, chainPending,
                 operation, max_retries, attempt, txObs>>

\* the call has returned and time passes before the next one
Tick(d) ==
  /\ pc \in {"done", "raised"}
  /\ calls < MaxCalls
  /\ pc' = "idle"
  /\ nonce_age' = Elapse(nonce_age, d)
  /\ UNCHANGED <<account, nonce_cache, calls, chainLatest, chainPending,
                 operation, max_retries, attempt, result, txObs>>

\* the node mines a transaction that was still pending
MineLater ==
  /\ chainLatest < chainPending
  /\ chainLatest' = chainLatest + 1
  /\ UNCHANGED <<account, nonce_cache, nonce_age, calls, chainPending,
                 operation, pc, max_retries, attempt, result, txObs>>

\* no call of _get_nonce on its own yet
NoQuery ==
  [force |-> FALSE, rpc |-> "none", cache |-> None, age |-> 0, pending |-> 0,
   latest |-> 0, from |-> "none", nonce |-> None, cache_after |-> None,
   age_after |-> 0]

InitQuery == q_last = NoQuery

InitTx ==
  /\ InitQuery
  /\ account \in BOOLEAN
  /\ nonce_cache = None
  /\ nonce_age = AgeCap
  /\ calls = 0
  /\ chainLatest = 0
  /\ chainPending = 0
  /\ operation = "none"
  /\ pc = "idle"
  /\ max_retries = DefaultMaxRetries
  /\ attempt = 0
  /\ result = NoResult
  /\ builds = 0
  /\ submits = 0
  /\ receipts = {}
  /\ nonce_from = "none"
  /\ nonce_used = None
  /\ last_err_nonce = FALSE
  /\ prev_err_nonce = FALSE
  /\ slept = 0
  /\ accepted_txs = 0
  /\ increments = 0
  /\ first_nonce = None
  /\ receipted_prev = {}
  /\ last_error = NoError
  /\ prev_success = None

\* _send_transaction_with_retry called with a max_retries of the caller's
\* choice; its callers have checked self.account
CallStarts ==
  /\ account
  /\ \E m \in (0..MaxRetriesArg) \cup {DefaultMaxRetries} :
       StartCall(m)
  /\ UNCHANGED exceptTx

\* register_repository_on_chain, add_link_to_registry, file_dmca_on_chain
OperationCalled ==
  /\ \E o \in Operations : CallOperation(o)
  /\ UNCHANGED exceptTx

AttemptStep ==
  /\ \E rpc \in {"pending", "latest", "fail"}, stage \in Stages,
        msg \in RpcErrors \cup {MsgTimeExhausted, NoError}, status \in {0, 1} :
          Attempt(rpc, stage, msg, status)
  /\ UNCHANGED exceptTx

LoopEnds == LoopExhausted /\ UNCHANGED exceptTx

ClockTick ==
  /\ \E d \in {NonceCacheTTL, NonceCacheTTL + 1} : Tick(d)
  /\ UNCHANGED exceptTx

NodeMines == MineLater /\ UNCHANGED exceptTx

\* _get_nonce(force_refresh) called on its own; an exception of both count
\* queries leaves the fields as they were
GetNonceAlone(force_refresh, rpc) ==
  LET g == GetNonce(force_refresh, nonce_cache, nonce_age, rpc,
                    chainPending, chainLatest) IN
    /\ pc = "idle"
    /\ (~NeedsRefresh(force_refresh, nonce_cache, nonce_age) => rpc = "pending")
    /\ nonce_cache' = g.cache
    /\ nonce_age' = g.age
    /\ q_last' = [force |-> force_refresh, rpc |-> rpc, cache |-> nonce_cache,
                  age |-> nonce_age, pending |-> chainPending,
                  latest |-> chainLatest, from |-> g.from, nonce |-> g.nonce,
                  cache_after |-> g.cache, age_after |-> g.age]
    /\ UNCHANGED <<account, calls, chainLatest, chainPending, operation, pc,
                   max_retries, attempt, result, txObs>>

\* time.time() advances by d seconds
Sleep(d) ==
  /\ pc = "idle"
  /\ nonce_age < AgeCap
  /\ nonce_age' = Elapse(nonce_age, d)
  /\ UNCHANGED <<account, nonce_cache, calls, chainLatest, chainPending,
                 operation, pc, max_retries, attempt, result, txObs, q_last>>

\* the node takes a transaction of the account into its pool
PoolGrows ==
  /\ pc = "idle"
  /\ chainPending < MaxNonce
  /\ chainPending' = chainPending + 1
  /\ UNCHANGED <<account, nonce_cache, nonce_age, calls, chainLatest,
                 operation, pc, max_retries, attempt, result, txObs, q_last>>

GetNonceCalled ==
  /\ \E f \in BOOLEAN, rpc \in {"pending", "latest", "fail"} : GetNonceAlone(f, rpc)
  /\ UNCHANGED <<mgrVars, ipfsVars, verVars, agentVars, retryVars, bountyVars, workflowVars>>

TimePasses ==
  /\ \E d \in {1, 10} : Sleep(d)
  /\ UNCHANGED <<mgrVars, ipfsVars, verVars, agentVars, retryVars, bountyVars, workflowVars>>

NodeAccepts ==
  /\ PoolGrows
  /\ UNCHANGED <<mgrVars, ipfsVars, verVars, agentVars, retryVars, bountyVars, workflowVars>>

(***************************************************************************)
(* BlockchainManager                                                       *)
(***************************************************************************)
\* the node mines no more than this many transactions of the manager
MaxMgrTx == 3

MsgNoWallet == <<"No", "wallet", "configured">>
MsgNoBounty == <<"No", "bounty", "to", "withdraw">>
MsgNoAttribute == <<"no", "attribute", "github_protection">>

\* where the submission of a transaction ends: an exception raised while
\* building, signing, sending or waiting, or a receipt with its status
MgrOutcomes == {"build", "sign", "send", "wait", "status0", "status1"}

MgrReceiptOf(outcome) ==
  CASE outcome = "status1" -> 1
    [] outcome = "status0" -> 0
    [] OTHER -> None

\* blockchain_manager.py:284-298 (and the same lines of the other five
\* operations): the dictionary returned once wait_for_transaction_receipt has
\* answered, or the except branch's
MgrReturn(outcome) ==
  IF MgrReceiptOf(outcome) # None
  THEN [success |-> TRUE, error |-> NoError]
  ELSE [success |-> FALSE, error |-> <<outcome>>]

\* an operation that returns before building any transaction
MgrRefuse(op, msg) ==
  /\ m_op' = op
  /\ m_fn' = "none"
  /\ m_sent' = FALSE
  /\ m_receipt' = None
  /\ m_result' = [success |-> FALSE, error |-> msg]
  /\ UNCHANGED <<m_account, m_has_gp, m_count>>

\* build_transaction, sign, send_raw_transaction, wait_for_transaction_receipt
MgrSubmit(op, fn, outcome) ==
  /\ MgrReceiptOf(outcome) # None => m_count < MaxMgrTx
  /\ m_op' = op
  /\ m_fn' = fn
  /\ m_sent' = (outcome \in {"send", "wait", "status0", "status1"})
  /\ m_receipt' = MgrReceiptOf(outcome)
  /\ m_count' = IF MgrReceiptOf(outcome) # None THEN m_count + 1 ELSE m_count
  /\ m_result' = MgrReturn(outcome)
  /\ UNCHANGED <<m_account, m_has_gp>>

\* register_link
MgrRegisterLink(op, use_deals, outcome) ==
  IF ~m_account
  THEN MgrRefuse(op, MsgNoWallet)
  ELSE MgrSubmit(op, IF use_deals THEN "addLinkWithDeal" ELSE "addLink", outcome)

\* register_repository_onchain: self.github_protection is assigned only when
\* the contract address is configured (blockchain_manager.py:58-59)
MgrRegisterRepositoryOnchain(outcome) ==
  IF ~m_has_gp
  THEN MgrRefuse("register_repository_onchain", MsgNoAttribute)
  ELSE IF ~m_account
  THEN MgrRefuse("register_repository_onchain", MsgNoWallet)
  ELSE MgrSubmit("register_repository_onchain", "processSubmission", outcome)

\* file_dmca
MgrFileDmca(use_deals, outcome) ==
  IF ~m_account
  THEN MgrRefuse("file_dmca", MsgNoWallet)
  ELSE MgrSubmit("file_dmca", IF use_deals THEN "fileDMCAWithDeal" ELSE "fileDMCA", outcome)

\* report_infringement_for_bounty
MgrReportInfringementForBounty(outcome) ==
  IF ~m_account
  THEN MgrRefuse("report_infringement_for_bounty", MsgNoWallet)
  ELSE MgrSubmit("report_infringement_for_bounty", "reportInfringement", outcome)

\* withdraw_bounty: balance is what get_bounty_balance answers
MgrWithdrawBounty(balance, outcome) ==
  IF ~m_account
  THEN MgrRefuse("withdraw_bounty", MsgNoWallet)
  ELSE IF balance = 0
  THEN MgrRefuse("withdraw_bounty", MsgNoBounty)
  ELSE MgrSubmit("withdraw_bounty", "withdraw", outcome)

\* create_filecoin_deal
MgrCreateFilecoinDeal(outcome) ==
  IF ~m_account
  THEN MgrRefuse("create_filecoin_deal", MsgNoWallet)
  ELSE MgrSubmit("create_filecoin_deal", "makeDealProposal", outcome)

InitMgr ==
  /\ m_account \in BOOLEAN
  /\ m_has_gp \in BOOLEAN
  /\ m_count = 0
  /\ m_op = "none"
  /\ m_fn = "none"
  /\ m_sent = FALSE
  /\ m_receipt = None
  /\ m_result = NoResult

RegisterRepositoryOnchain ==
  /\ \E o \in MgrOutcomes : MgrRegisterRepositoryOnchain(o)
  /\ UNCHANGED exceptMgr

RegisterLink ==
  /\ \E d \in BOOLEAN, o \in MgrOutcomes : MgrRegisterLink("register_link", d, o)
  /\ UNCHANGED exceptMgr

FileDmca ==
  /\ \E d \in BOOLEAN, o \in MgrOutcomes : MgrFileDmca(d, o)
  /\ UNCHANGED exceptMgr

ReportInfringementForBounty ==
  /\ \E o \in MgrOutcomes : MgrReportInfringementForBounty(o)
  /\ UNCHANGED exceptMgr

WithdrawBounty ==
  /\ \E b \in {0, 1}, o \in MgrOutcomes : MgrWithdrawBounty(b, o)
  /\ UNCHANGED exceptMgr

CreateFilecoinDeal ==
  /\ \E o \in MgrOutcomes : MgrCreateFilecoinDeal(o)
  /\ UNCHANGED exceptMgr

(***************************************************************************)
(* EnhancedIPFSManager.upload_to_ipfs                                      *)
(***************************************************************************)
\* paths as sequences of components; the process's working directory
Cwd == <<"/", "work">>
Paths == {<<"/", "tmp", "license.pdf">>, <<"dmca.pdf">>, <<"reports", "audit.pdf">>}

\* os.path.abspath
AbsPath(p) == IF p[1] = "/" THEN p ELSE Cwd \o p

MsgFileNotFound == <<"File", "not", "found">>
MsgAllFailed == <<"All", "IPFS", "upload", "methods", "failed">>
NoIdentifier == [scheme |-> "none", of |-> <<>>]

\* mutant: the last resort is not appended
DetermineServicePriority_NoLocalFile(key, secret, token) ==
  (IF key /\ secret THEN <<"pinata">> ELSE <<>>)
    \o (IF token THEN <<"web3_storage">> ELSE <<>>)
    \o <<"local_ipfs">>

\* mutant: the local node is asked before the pinning services
DetermineServicePriority_LocalFirst(key, secret, token) ==
  <<"local_ipfs">>
    \o (IF key /\ secret THEN <<"pinata">> ELSE <<>>)
    \o (IF token THEN <<"web3_storage">> ELSE <<>>)
    \o <<"local_file">>

\* mutant: the Pinata key alone enables Pinata
DetermineServicePriority_KeyOnly(key, secret, token) ==
  (IF key THEN <<"pinata">> ELSE <<>>)
    \o (IF token THEN <<"web3_storage">> ELSE <<>>)
    \o <<"local_ipfs", "local_file">>

\* EnhancedIPFSManager._determine_service_priority
DetermineServicePriority(key, secret, token) ==
  (IF key /\ secret THEN <<"pinata">> ELSE <<>>)
    \o (IF token THEN <<"web3_storage">> ELSE <<>>)
    \o <<"local_ipfs", "local_file">>

\* How a service's upload can end. _upload_to_pinata, _upload_to_web3_storage
\* and _upload_to_local_ipfs raise when the HTTP request fails; Pinata's hash
\* is returned whether its verification succeeds or not; _fallback_local_storage
\* only formats a string.
ServiceOutcomes(service) ==
  CASE service = "pinata" -> {"ok_verified", "ok_unverified", "fail"}
    [] service = "local_file" -> {"ok"}
    [] OTHER -> {"ok", "fail"}

\* mutant: an upload whose verification failed counts as failed
UploadReturns_VerifiedOnly(outcome) == outcome \in {"ok", "ok_verified"}

\* enhanced_ipfs_manager.py:131-138: the upload function returns its hash
\* unless the request raised, in both branches of Pinata's verification
UploadReturns(outcome) == outcome # "fail"

\* what the service's upload function returns
ServiceReturn(service, path) ==
  IF service = "local_file"
  THEN [scheme |-> "local://", of |-> AbsPath(path)]
  ELSE [scheme |-> "cid", of |-> <<service>>]

\* enhanced_ipfs_manager.py:64-68
UploadToIpfs(path, exists) ==
  /\ u_pc \in {"idle", "done", "raised"}
  /\ u_path' = path
  /\ u_exists' = exists
  /\ u_tried' = <<>>
  /\ u_verified' = "none"
  /\ u_result' = NoIdentifier
  /\ IF ~exists
     THEN /\ u_pc' = "raised"
          /\ u_error' = MsgFileNotFound
          /\ u_idx' = 0
     ELSE /\ u_pc' = "loop"
          /\ u_error' = NoError
          /\ u_idx' = 1
  /\ UNCHANGED <<pinata_api_key, pinata_api_secret, web3_storage_token, service_priority>>

\* enhanced_ipfs_manager.py:68-82: one iteration of the loop over
\* service_priority, and the raise that follows the loop
TryService(outcome) ==
  /\ u_pc = "loop"
  /\ u_idx <= Len(service_priority)
  /\ LET service == service_priority[u_idx] IN
     /\ outcome \in ServiceOutcomes(service)
     /\ u_tried' = Append(u_tried, [service |-> service, ok |-> UploadReturns(outcome)])
     /\ u_verified' = IF service = "pinata" /\ outcome # "fail" THEN outcome ELSE u_verified
     /\ IF UploadReturns(outcome)
        THEN /\ u_result' = ServiceReturn(service, u_path)
             /\ u_pc' = "done"
             /\ UNCHANGED <<u_idx, u_error>>
        ELSE IF u_idx < Len(service_priority)
        THEN /\ u_idx' = u_idx + 1
             /\ UNCHANGED <<u_pc, u_result, u_error>>
        ELSE /\ u_pc' = "raised"
             /\ u_error' = MsgAllFailed
             /\ UNCHANGED <<u_idx, u_result>>
  /\ UNCHANGED <<pinata_api_key, pinata_api_secret, web3_storage_token, service_priority,
                 u_path, u_exists>>

\* __init__ (enhanced_ipfs_manager.py:27-42)
InitIpfs ==
  /\ pinata_api_key \in BOOLEAN
  /\ pinata_api_secret \in BOOLEAN
  /\ web3_storage_token \in BOOLEAN
  /\ service_priority =
       DetermineServicePriority(pinata_api_key, pinata_api_secret, web3_storage_token)
  /\ u_pc = "idle"
  /\ u_path = <<>>
  /\ u_exists = FALSE
  /\ u_idx = 0
  /\ u_tried = <<>>
  /\ u_verified = "none"
  /\ u_result = NoIdentifier
  /\ u_error = NoError

UploadCalled ==
  /\ \E p \in Paths, e \in BOOLEAN : UploadToIpfs(p, e)
  /\ UNCHANGED exceptIpfs

ServiceTried ==
  /\ \E o \in {"ok", "ok_verified", "ok_unverified", "fail"} : TryService(o)
  /\ UNCHANGED exceptIpfs

(***************************************************************************)
(* EnhancedIPFSManager._verify_ipfs_content_with_retry                     *)
(***************************************************************************)
\* largest max_retries argument a verification is made with
MaxVerifyRetries == 3

DefaultVerifyRetries == 3

\* an identifier, by what the code looks at: how it starts and how long it is
Hashes ==
  { [prefix |-> "Qm", len |-> 46], [prefix |-> "Qm", len |-> 45],
    [prefix |-> "b", len |-> 59], [prefix |-> "b", len |-> 49],
    [prefix |-> "local://", len |-> 24], [prefix |-> "", len |-> 0] }

\* IPFSUtils.validate_ipfs_hash
ValidateIpfsHash(h) ==
  IF h.len = 0
  THEN FALSE
  ELSE \/ (h.prefix = "Qm" /\ h.len = 46)
       \/ (h.prefix = "b" /\ h.len >= 50)
       \/ h.prefix = "local://"

\* IPFSUtils.generate_ipfs_urls
GenerateIpfsUrls(h) ==
  IF ~ValidateIpfsHash(h)
  THEN <<>>
  ELSE IF h.prefix = "local://"
  THEN <<"local">>
  ELSE <<"ipfs.io", "gateway.pinata.cloud", "cloudflare-ipfs.com", "dweb.link">>

\* mutant: a third gateway is polled
GatewaysTested_Three(urls) == SubSeq(urls, 1, IF Len(urls) < 3 THEN Len(urls) ELSE 3)

\* enhanced_ipfs_manager.py:251  gateways[:2]
GatewaysTested(urls) == SubSeq(urls, 1, IF Len(urls) < 2 THEN Len(urls) ELSE 2)

\* what requests.head can do: a status code, a timeout, another exception
Responses == {"200", "404", "500", "timeout", "error"}

\* enhanced_ipfs_manager.py:254
ContentFound(response) == response = "200"

\* enhanced_ipfs_manager.py:238-248: up to the first request
VerifyIpfsContentWithRetry(h, file, m) ==
  /\ v_pc \in {"idle", "done"}
  /\ v_hash' = h
  /\ v_file' = file
  /\ v_max_retries' = m
  /\ v_attempt' = 0
  /\ v_gw' = 1
  /\ v_requests' = 0
  /\ v_round_requests' = 0
  /\ v_saw200' = FALSE
  /\ v_responses' = <<>>
  /\ v_sleeps' = 0
  /\ IF ~ValidateIpfsHash(h)
     THEN v_pc' = "done" /\ v_result' = FALSE
     ELSE IF h.prefix = "local://"
     THEN v_pc' = "done" /\ v_result' = file
     ELSE IF m = 0 \/ GatewaysTested(GenerateIpfsUrls(h)) = <<>>
     THEN v_pc' = "done" /\ v_result' = FALSE
     ELSE v_pc' = "poll" /\ v_result' = FALSE

\* enhanced_ipfs_manager.py:251-272: one requests.head, with the end of the
\* round and of the polling when it was the round's last
VerifyRequest(response) ==
  /\ v_pc = "poll"
  /\ LET gateways == GatewaysTested(GenerateIpfsUrls(v_hash)) IN
     /\ v_requests' = v_requests + 1
     /\ v_saw200' = (v_saw200 \/ response = "200")
     /\ v_responses' = Append(v_responses, response)
     /\ IF ContentFound(response)
        THEN /\ v_pc' = "done"
             /\ v_result' = TRUE
             /\ v_round_requests' = v_round_requests + 1
             /\ UNCHANGED <<v_attempt, v_gw, v_sleeps>>
        ELSE IF v_gw < Len(gateways)
        THEN /\ v_gw' = v_gw + 1
             /\ v_round_requests' = v_round_requests + 1
             /\ UNCHANGED <<v_pc, v_result, v_attempt, v_sleeps>>
        ELSE IF v_attempt < v_max_retries - 1
        THEN /\ v_attempt' = v_attempt + 1
             /\ v_gw' = 1
             /\ v_round_requests' = 0
             /\ v_sleeps' = v_sleeps + 1
             /\ UNCHANGED <<v_pc, v_result>>
        ELSE /\ v_pc' = "done"
             /\ v_result' = FALSE
             /\ v_round_requests' = v_round_requests + 1
             /\ UNCHANGED <<v_attempt, v_gw, v_sleeps>>
  /\ UNCHANGED <<v_hash, v_file, v_max_retries>>

InitVer ==
  /\ v_pc = "idle"
  /\ v_hash = [prefix |-> "", len |-> 0]
  /\ v_file = FALSE
  /\ v_max_retries = DefaultVerifyRetries
  /\ v_attempt = 0
  /\ v_gw = 1
  /\ v_requests = 0
  /\ v_round_requests = 0
  /\ v_saw200 = FALSE
  /\ v_responses = <<>>
  /\ v_sleeps = 0
  /\ v_result = FALSE

VerifyCalled ==
  /\ \E h \in Hashes, f \in BOOLEAN, m \in (0..MaxVerifyRetries) \cup {DefaultVerifyRetries} :
       /\ (h.prefix # "local://" => f = FALSE)
       /\ VerifyIpfsContentWithRetry(h, f, m)
  /\ UNCHANGED exceptVer

GatewayAnswers ==
  /\ \E r \in Responses : VerifyRequest(r)
  /\ UNCHANGED exceptVer

(***************************************************************************)
(* CompleteFilecoinAgent: scanning for violations and bounty reports       *)
(***************************************************************************)
\* most candidates one scan looks at
MaxCandidates == 3

\* similarity scores in hundredths: 0.7 is 70
ScanThreshold == 70
BountyMinimum == 70

Scores == {10, 69, 70, 71, 100}

\* repositories on chain, by id, and the URLs a search can return
Registered == <<"github.com/a/orig", "github.com/b/lib">>
Urls == {"github.com/a/orig", "github.com/b/lib", "github.com/x/copy"}

NoDmca ==
  [original |-> "", url |-> "", score |-> None, generated |-> FALSE,
   uploaded |-> FALSE, filed |-> FALSE, success |-> FALSE]

MsgNoReposToScan == <<"No", "repositories", "found", "to", "scan">>
MsgRepoNotFound == <<"Repository", "not", "found">>
MsgNoMatchingRepo == <<"No", "matching", "registered", "repository", "found">>
MsgSimilarityTooLow == <<"Similarity", "too", "low", "for", "bounty", "claim">>
MsgDmcaFailed == <<"Failed", "to", "generate", "DMCA", "notice">>
MsgRaised == <<"exception">>

\* how far _generate_and_file_dmca gets: the PDF generator raises, the upload
\* raises, the filing transaction fails or succeeds, a later line raises
DmcaOutcomes == {"pdf_raises", "upload_raises", "tx_failed", "tx_ok", "late_raises"}

\* CompleteFilecoinAgent._generate_and_file_dmca
GenerateAndFileDmca(original, url, score, outcome) ==
  [original |-> original, url |-> url, score |-> score,
   generated |-> outcome # "pdf_raises",
   uploaded |-> outcome \in {"tx_failed", "tx_ok", "late_raises"},
   filed |-> outcome \in {"tx_ok", "late_raises"},
   success |-> outcome \in {"tx_failed", "tx_ok"}]

\* comparison.get('similarity_score', 0)
SimilarityScore(comparison) ==
  IF comparison = None THEN 0 ELSE comparison

\* CompleteFilecoinAgent._find_best_matching_repo
FindBestMatchingRepo(url) == None

\* CompleteFilecoinAgent._get_repository_by_id with total repositories on chain
GetRepositoryById(repo_id, total) ==
  IF repo_id \in 1..total THEN Registered[repo_id] ELSE ""

\* CompleteFilecoinAgent._get_all_registered_repositories
GetAllRegisteredRepositories(total) == SubSeq(Registered, 1, total)

\* mutant: the threshold itself passes
AboveScanThreshold_Inclusive(score) == score >= ScanThreshold

\* complete_filecoin_agent.py:478
AboveScanThreshold(score) == score > ScanThreshold

\* mutant: the minimum is lower than the one reported
BelowBountyMinimum_Half(score) == score < 50

\* complete_filecoin_agent.py:590
BelowBountyMinimum(score) == score < BountyMinimum

\* complete_filecoin_agent.py:867-871, in hundredths of a tFIL
CalculateBountyAmount(score) ==
  IF score * 2 < 200 THEN score * 2 ELSE 200

\* register_repository_complete: nothing generated, uploaded or sent yet
NoReg ==
  [url |-> "", on_chain |-> FALSE, license |-> FALSE, uploaded |-> FALSE,
   chain_calls |-> 0]

MsgInvalidUrl == <<"URL", "must", "be", "a", "GitHub", "repository">>
MsgAlreadyRegistered == <<"Repository", "already", "registered">>
MsgAnalysisFailed == <<"analysis", "failed">>
MsgChainRegistrationFailed == <<"Blockchain", "registration", "failed">>

\* FilecoinContractInterface.get_total_repositories: 0 when the call raises
GetTotalRepositories(total, rpc_ok) == IF rpc_ok THEN total ELSE 0

\* CompleteFilecoinAgent._check_existing_registration: the id of the first
\* readable repository with this URL, 0 for None; unreadable is the id whose
\* get_repository_from_chain fails (0: none does)
CheckExistingRegistration(url, total, rpc_ok, unreadable) ==
  LET seen == {i \in 1..GetTotalRepositories(total, rpc_ok) :
                 i # unreadable /\ Registered[i] = url} IN
    IF seen = {} THEN 0 ELSE CHOOSE i \in seen : \A j \in seen : i <= j

\* how far register_repository_complete gets once the URL is new to it
RegisterOutcomes ==
  {"analysis_fails", "license_raises", "upload_raises", "chain_fails",
   "pin_raises", "ok"}

\* CompleteFilecoinAgent.register_repository_complete; url is the cleaned URL,
\* "" when _clean_and_validate_url rejects the input
RegisterRepositoryComplete(url, total, rpc_ok, unreadable, outcome) ==
  /\ a_pc \in {"idle", "done"}
  /\ a_op' = "register"
  /\ a_pc' = "done"
  /\ a_repos' = <<>>
  /\ a_seen' = 0
  /\ a_score' = None
  /\ a_dmca' = NoDmca
  /\ a_dmca_calls' = 0
  /\ a_violations' = 0
  /\ LET on_chain == \E i \in 1..total : Registered[i] = url
         did(l, u, c) == [url |-> url, on_chain |-> on_chain, license |-> l,
                          uploaded |-> u, chain_calls |-> c] IN
       IF url = ""
       THEN /\ a_reg' = did(FALSE, FALSE, 0)
            /\ a_result' = [success |-> FALSE, error |-> MsgInvalidUrl]
       ELSE IF CheckExistingRegistration(url, total, rpc_ok, unreadable) # 0
       THEN /\ a_reg' = did(FALSE, FALSE, 0)
            /\ a_result' = [success |-> FALSE, error |-> MsgAlreadyRegistered]
       ELSE CASE outcome = "analysis_fails" ->
                   /\ a_reg' = did(FALSE, FALSE, 0)
                   /\ a_result' = [success |-> FALSE, error |-> MsgAnalysisFailed]
              [] outcome = "license_raises" ->
                   /\ a_reg' = did(FALSE, FALSE, 0)
                   /\ a_result' = [success |-> FALSE, error |-> MsgRaised]
              [] outcome = "upload_raises" ->
                   /\ a_reg' = did(TRUE, FALSE, 0)
                   /\ a_result' = [success |-> FALSE, error |-> MsgRaised]
              [] outcome = "chain_fails" ->
                   /\ a_reg' = did(TRUE, TRUE, 2)
                   /\ a_result' = [success |-> FALSE,
                                   error |-> MsgChainRegistrationFailed]
              [] outcome = "pin_raises" ->
                   /\ a_reg' = did(TRUE, TRUE, 2)
                   /\ a_result' = [success |-> FALSE, error |-> MsgRaised]
              [] OTHER ->
                   /\ a_reg' = did(TRUE, TRUE, 2)
                   /\ a_result' = [success |-> TRUE, error |-> NoError]

ScanFailure(msg) ==
  /\ a_pc' = "done"
  /\ a_result' = [success |-> FALSE, error |-> msg]

\* scan_and_report_violations up to the loops (lines 437-452)
ScanAndReportViolations(repo_id, total) ==
  /\ a_pc \in {"idle", "done"}
  /\ a_op' = "scan"
  /\ a_seen' = 0
  /\ a_score' = None
  /\ a_dmca' = NoDmca
  /\ a_dmca_calls' = 0
  /\ a_violations' = 0
  /\ a_reg' = NoReg
  /\ LET repos == IF repo_id # None /\ repo_id # 0
                  THEN <<GetRepositoryById(repo_id, total)>>
                  ELSE GetAllRegisteredRepositories(total) IN
       IF repo_id # None /\ repo_id # 0 /\ repos[1] = ""
       THEN ScanFailure(MsgRepoNotFound) /\ a_repos' = <<>>
       ELSE IF repos = <<>>
       THEN ScanFailure(MsgNoReposToScan) /\ a_repos' = <<>>
       ELSE a_pc' = "scan" /\ a_repos' = repos /\ a_result' = NoResult

\* one pass of the inner loop (lines 466-491) for the repo being scanned
ScanSimilarRepo(url, comparison, raises, outcome) ==
  /\ a_pc = "scan"
  /\ a_repos # <<>>
  /\ a_seen < MaxCandidates
  /\ a_seen' = a_seen + 1
  /\ UNCHANGED <<a_op, a_repos, a_reg>>
  /\ IF url = a_repos[1]
     THEN UNCHANGED <<a_pc, a_score, a_dmca, a_dmca_calls, a_violations, a_result>>
     ELSE IF raises
     THEN /\ ScanFailure(MsgRaised)
          /\ UNCHANGED <<a_score, a_dmca, a_dmca_calls, a_violations>>
     ELSE LET score == SimilarityScore(comparison) IN
          /\ a_score' = score
          /\ IF AboveScanThreshold(score)
             THEN LET dmca == GenerateAndFileDmca(a_repos[1], url, score, outcome) IN
                  /\ a_dmca' = dmca
                  /\ a_dmca_calls' = a_dmca_calls + 1
                  /\ a_violations' = IF dmca.success THEN a_violations + 1
                                     ELSE a_violations
             ELSE UNCHANGED <<a_dmca, a_dmca_calls, a_violations>>
          /\ UNCHANGED <<a_pc, a_result>>

\* the candidates of the current repo are exhausted: the next repo, or the
\* result (lines 493-502)
ScanRepoDone ==
  /\ a_pc = "scan"
  /\ a_repos # <<>>
  /\ a_repos' = Tail(a_repos)
  /\ IF Tail(a_repos) = <<>>
     THEN /\ a_pc' = "done"
          /\ a_result' = [success |-> TRUE, violations_found |-> a_violations]
     ELSE UNCHANGED <<a_pc, a_result>>
  /\ UNCHANGED <<a_op, a_seen, a_score, a_dmca, a_dmca_calls, a_violations, a_reg>>

\* CompleteFilecoinAgent.report_infringement_bounty
ReportInfringementBounty(url, repo_id, total, comparison, raises, outcome) ==
  /\ a_pc \in {"idle", "done"}
  /\ a_op' = "bounty"
  /\ a_pc' = "done"
  /\ a_repos' = <<>>
  /\ a_seen' = 0
  /\ a_violations' = 0
  /\ a_reg' = NoReg
  /\ LET id == IF repo_id = None \/ repo_id = 0 THEN FindBestMatchingRepo(url)
               ELSE repo_id
         original == IF id = None THEN "" ELSE GetRepositoryById(id, total)
         score == SimilarityScore(comparison)
         dmca == GenerateAndFileDmca(original, url, score, outcome) IN
       IF id = None \/ id = 0
       THEN /\ a_result' = [success |-> FALSE, error |-> MsgNoMatchingRepo]
            /\ a_score' = None /\ a_dmca' = NoDmca /\ a_dmca_calls' = 0
       ELSE IF original = ""
       THEN /\ a_result' = [success |-> FALSE, error |-> MsgRepoNotFound]
            /\ a_score' = None /\ a_dmca' = NoDmca /\ a_dmca_calls' = 0
       ELSE IF raises
       THEN /\ a_result' = [success |-> FALSE, error |-> MsgRaised]
            /\ a_score' = None /\ a_dmca' = NoDmca /\ a_dmca_calls' = 0
       ELSE IF BelowBountyMinimum(score)
       THEN /\ a_result' = [success |-> FALSE, error |-> MsgSimilarityTooLow]
            /\ a_score' = score /\ a_dmca' = NoDmca /\ a_dmca_calls' = 0
       ELSE /\ a_score' = score
            /\ a_dmca' = dmca
            /\ a_dmca_calls' = 1
            /\ a_result' = IF ~dmca.success
                           THEN [success |-> FALSE, error |-> MsgDmcaFailed]
                           ELSE [success |-> TRUE,
                                 amount |-> CalculateBountyAmount(score),
                                 similarity_score |-> score]

InitAgent ==
  /\ a_pc = "idle"
  /\ a_op = "none"
  /\ a_repos = <<>>
  /\ a_seen = 0
  /\ a_score = None
  /\ a_dmca = NoDmca
  /\ a_dmca_calls = 0
  /\ a_violations = 0
  /\ a_reg = NoReg
  /\ a_result = NoResult

Comparisons == Scores \cup {None}

ScanCalled ==
  /\ \E repo_id \in {None, 0, 1, 2}, total \in 0..Len(Registered) :
       ScanAndReportViolations(repo_id, total)
  /\ UNCHANGED exceptAgent

SimilarRepoScanned ==
  /\ \E url \in Urls, c \in Comparisons, raises \in BOOLEAN, o \in DmcaOutcomes :
       /\ (raises => c = None)
       /\ ScanSimilarRepo(url, c, raises, o)
  /\ UNCHANGED exceptAgent

RepoScanned ==
  /\ ScanRepoDone
  /\ UNCHANGED exceptAgent

RegistrationRequested ==
  /\ \E url \in Urls \cup {""}, total \in 0..Len(Registered), rpc_ok \in BOOLEAN,
        unreadable \in 0..Len(Registered), o \in RegisterOutcomes :
       RegisterRepositoryComplete(url, total, rpc_ok, unreadable, o)
  /\ UNCHANGED exceptAgent

BountyReported ==
  /\ \E url \in Urls, repo_id \in {None, 0, 1, 2}, total \in 0..Len(Registered),
        c \in Comparisons, raises \in BOOLEAN, o \in DmcaOutcomes :
       /\ (raises => c = None)
       /\ ReportInfringementBounty(url, repo_id, total, c, raises, o)
  /\ UNCHANGED exceptAgent

(***************************************************************************)
(* CompleteFilecoinAgent.run_full_protection_workflow                      *)
(***************************************************************************)
MsgRegistrationFailed == <<"Registration", "failed">>
WorkflowSteps == <<"registration", "security_audit", "violation_scan">>

\* mutant: the later steps run after a failed registration too
WorkflowContinues_Always(registration_ok) == TRUE

\* complete_filecoin_agent.py:709  `if not registration['success']: return`
WorkflowContinues(registration_ok) == registration_ok

\* run_full_protection_workflow up to its first return (lines 697-716)
RunFullProtectionWorkflow(url, total, rpc_ok, unreadable, outcome) ==
  /\ w_pc \in {"idle", "done"}
  /\ RegisterRepositoryComplete(url, total, rpc_ok, unreadable, outcome)
  /\ w_steps' = <<"registration">>
  /\ w_registration' = a_result'.success
  /\ w_audit' = "none"
  /\ IF WorkflowContinues(a_result'.success)
     THEN w_pc' = "audit" /\ w_result' = NoResult
     ELSE /\ w_pc' = "done"
          /\ w_result' = [success |-> FALSE, error |-> MsgRegistrationFailed]

InitWorkflow ==
  /\ w_pc = "idle"
  /\ w_steps = <<>>
  /\ w_registration = FALSE
  /\ w_audit = "none"
  /\ w_result = NoResult

WorkflowCalled ==
  /\ \E url \in Urls \cup {""}, total \in 0..Len(Registered), rpc_ok \in BOOLEAN,
        unreadable \in 0..Len(Registered), o \in RegisterOutcomes :
       RunFullProtectionWorkflow(url, total, rpc_ok, unreadable, o)
  /\ UNCHANGED exceptWorkflow

\* lines 720-723: comprehensive_security_audit returns a dictionary, a
\* failure included, and the workflow goes on
WorkflowAudited ==
  /\ w_pc = "audit"
  /\ w_pc' = "scan"
  /\ w_steps' = Append(w_steps, "security_audit")
  /\ \E ok \in {"ok", "failed"} : w_audit' = ok
  /\ UNCHANGED <<w_registration, w_result, agentVars, exceptWorkflow>>

\* lines 725-727: scan_and_report_violations(repo_id) is called; its loops
\* are the steps SimilarRepoScanned and RepoScanned
WorkflowScanCalled ==
  /\ w_pc = "scan"
  /\ w_pc' = "scanning"
  /\ w_steps' = Append(w_steps, "violation_scan")
  /\ \E repo_id \in {0, 1, 2}, total \in 0..Len(Registered) :
       ScanAndReportViolations(repo_id, total)
  /\ UNCHANGED <<w_registration, w_audit, w_result, exceptWorkflow>>

\* lines 729-746: the scan has returned, with a success or a failure
WorkflowReturned ==
  /\ w_pc = "scanning"
  /\ a_pc = "done"
  /\ w_pc' = "done"
  /\ w_result' = [success |-> TRUE, error |-> NoError]
  /\ UNCHANGED <<w_steps, w_registration, w_audit, agentVars, exceptWorkflow>>

(***************************************************************************)
(* BlockchainUtils.retry_transaction                                       *)
(***************************************************************************)
\* largest max_retries argument retry_transaction is called with
MaxRetryTransactionArg == 4

DefaultRetryTransactions == 3
DefaultRetryDelay == 2

\* what func() can do: return a value or raise an exception
FuncOutcomes ==
  { [ok |-> TRUE, val |-> "receipt_a"], [ok |-> TRUE, val |-> "receipt_b"],
    [ok |-> FALSE, val |-> "ConnectionError"], [ok |-> FALSE, val |-> "ValueError"],
    [ok |-> FALSE, val |-> "TimeExhausted"] }

RECURSIVE Pow2(_)
Pow2(n) == IF n = 0 THEN 1 ELSE 2 * Pow2(n - 1)

\* mutant: the wait grows by one delay per attempt
WaitTime_Linear(delay, k) == delay * (k + 1)

\* blockchain_utilities.py:128
WaitTime(delay, k) == delay * Pow2(k)

\* mutant: the last attempt is taken to be the one after the last
IsLastRetry_OnePast(k, m) == k = m

\* blockchain_utilities.py:125
IsLastRetry(k, m) == k = m - 1

\* retry_transaction is called; range(max_retries) is empty for max_retries
\* of 0 and the function ends without a return statement
RetryTransaction(m, delay) ==
  /\ r_pc \in {"idle", "returned", "raised"}
  /\ r_max_retries' = m
  /\ r_delay' = delay
  /\ r_attempt' = 0
  /\ r_log' = <<>>
  /\ r_waits' = <<>>
  /\ r_exc' = "none"
  /\ IF m = 0
     THEN r_pc' = "returned" /\ r_value' = "None"
     ELSE r_pc' = "loop" /\ r_value' = "none"

\* one iteration of the loop (blockchain_utilities.py:122-131), with the end
\* of the function when it was the last value of range(max_retries)
RetryIteration(outcome) ==
  /\ r_pc = "loop"
  /\ r_log' = Append(r_log, outcome)
  /\ UNCHANGED <<r_max_retries, r_delay>>
  /\ IF outcome.ok
     THEN /\ r_pc' = "returned"
          /\ r_value' = outcome.val
          /\ UNCHANGED <<r_attempt, r_waits, r_exc>>
     ELSE IF IsLastRetry(r_attempt, r_max_retries)
     THEN /\ r_pc' = "raised"
          /\ r_exc' = outcome.val
          /\ UNCHANGED <<r_attempt, r_waits, r_value>>
     ELSE /\ r_waits' = Append(r_waits, WaitTime(r_delay, r_attempt))
          /\ UNCHANGED r_exc
          /\ IF r_attempt + 1 < r_max_retries
             THEN /\ r_attempt' = r_attempt + 1
                  /\ UNCHANGED <<r_pc, r_value>>
             ELSE /\ r_pc' = "returned"
                  /\ r_value' = "None"
                  /\ UNCHANGED r_attempt

InitRetry ==
  /\ r_pc = "idle"
  /\ r_max_retries = DefaultRetryTransactions
  /\ r_delay = DefaultRetryDelay
  /\ r_attempt = 0
  /\ r_log = <<>>
  /\ r_waits = <<>>
  /\ r_value = "none"
  /\ r_exc = "none"

RetryCalled ==
  /\ \E m \in (0..MaxRetryTransactionArg) \cup {DefaultRetryTransactions},
        d \in {1, DefaultRetryDelay} : RetryTransaction(m, d)
  /\ UNCHANGED exceptRetry

FuncInvoked ==
  /\ \E o \in FuncOutcomes : RetryIteration(o)
  /\ UNCHANGED exceptRetry

(***************************************************************************)
(* BountySystem                                                            *)
(***************************************************************************)
MsgOriginalNotRegistered == <<"Original", "repository", "not", "registered">>
MsgAlreadyReported == <<"This", "infringement", "has", "already", "been", "reported">>
MsgNotValidated == <<"Infringement", "claim", "could", "not", "be", "validated">>
MsgBountyClaimFailed == <<"Failed", "to", "submit", "bounty", "claim">>
MsgOwnAddress == <<"Can", "only", "withdraw", "from", "your", "own", "address">>

\* the URLs of reports
BountyUrls == {"github.com/a/orig", "github.com/x/copy"}

\* Account.from_key(...).address is in checksum case; "None": no address
WalletAddress == "0xAbC1"
Addresses == {"0xAbC1", "0xabc1", "0xDeF2", "None"}

\* blockchain_manager.py:32-38  self.address
MgrAddress(has_account) == IF has_account THEN WalletAddress ELSE "None"

\* blockchain_manager.py:383-399  check_link_status(url).get('exists'): the
\* record's exists field, or False when the call of linkRecords raised
LinkExists(url, links, rpc_ok) == rpc_ok /\ url \in links

\* similarity scores of compare_repository_code, in hundredths
BountyScores == {50, 70, 90}
ValidationThreshold == 70

\* bounty_system.py:119-155  validate_infringement(...)['is_valid']; the
\* confidence _ai_validate_claim returns is 0.85 and the one required 0.8
IsValidInfringement(compare_ok, score) ==
  compare_ok /\ score >= ValidationThreshold /\ 85 > 80

\* an operation of BountySystem returns a failure of its own
BountyRefuse(op, args, steps, msg) ==
  /\ b_op' = op
  /\ b_args' = args
  /\ b_steps' = steps
  /\ b_sent' = FALSE
  /\ b_result' = [success |-> FALSE, error |-> msg]
  /\ UNCHANGED <<b_links, b_reports, mgrVars>>

\* submit_infringement_report. rpc1, rpc2: the two linkRecords calls
\* answered. The later steps are reached only past the checks: compare_ok,
\* score: compare_repository_code; raises: the step after validation that
\* raises, "none" if none does; outcome: where the submission of the
\* transaction ends.
SubmitInfringementReport(original, infringing, rpc1, rpc2) ==
  LET op == "submit_infringement_report"
      args == [original |-> original, infringing |-> infringing,
               address |-> "None"]
  IN
  IF ~LinkExists(original, b_links, rpc1)
  THEN BountyRefuse(op, args, <<>>, MsgOriginalNotRegistered)
  ELSE IF LinkExists(infringing, b_links, rpc2)
  THEN BountyRefuse(op, args, <<>>, MsgAlreadyReported)
  ELSE \E compare_ok \in BOOLEAN, score \in BountyScores :
    IF ~IsValidInfringement(compare_ok, score)
    THEN BountyRefuse(op, args, <<>>, MsgNotValidated)
    ELSE \E raises \in {"none", "generate_dmca_pdf", "upload_to_ipfs"} :
      IF raises = "generate_dmca_pdf"
      THEN BountyRefuse(op, args, <<"generate_dmca_pdf">>, <<raises>>)
      ELSE IF raises = "upload_to_ipfs"
      THEN BountyRefuse(op, args, <<"generate_dmca_pdf", "upload_to_ipfs">>,
                        <<raises>>)
      ELSE \E outcome \in MgrOutcomes :
        /\ MgrReportInfringementForBounty(outcome)
        /\ b_op' = op
        /\ b_args' = args
        /\ b_steps' = <<"generate_dmca_pdf", "upload_to_ipfs",
                        "report_infringement_for_bounty">>
        /\ b_sent' = m_sent'
        /\ b_reports' = IF m_result'.success THEN b_reports + 1 ELSE b_reports
        /\ b_result' = IF m_result'.success
                       THEN [success |-> TRUE, error |-> NoError]
                       ELSE [success |-> FALSE, error |-> MsgBountyClaimFailed]
        /\ UNCHANGED b_links

\* mutant: every address is taken to be the caller's
OwnsAddress_Always(own, address) == TRUE

\* bounty_system.py:227  `if self.blockchain.address != address`
OwnsAddress(own, address) == own = address

\* withdraw_reporter_bounty
WithdrawReporterBounty(address) ==
  LET op == "withdraw_reporter_bounty"
      args == [original |-> "", infringing |-> "", address |-> address]
  IN
  IF ~OwnsAddress(MgrAddress(m_account), address)
  THEN BountyRefuse(op, args, <<>>, MsgOwnAddress)
  ELSE \E balance \in {0, 1}, outcome \in MgrOutcomes :
       /\ MgrWithdrawBounty(balance, outcome)
       /\ b_op' = op
       /\ b_args' = args
       /\ b_steps' = <<"withdraw_bounty">>
       /\ b_sent' = m_sent'
       /\ b_result' = m_result'
       /\ UNCHANGED <<b_links, b_reports>>

\* the node: a transaction of anyone's gives a URL a record in the registry
RecordLink(url) ==
  /\ url \notin b_links
  /\ b_links' = b_links \cup {url}
  /\ UNCHANGED <<b_op, b_args, b_steps, b_sent, b_reports, b_result, mgrVars>>

InitBounty ==
  /\ b_links = {}
  /\ b_op = "none"
  /\ b_args = [original |-> "", infringing |-> "", address |-> "None"]
  /\ b_steps = <<>>
  /\ b_sent = FALSE
  /\ b_reports = 0
  /\ b_result = NoResult

ReportSubmitted ==
  /\ \E original \in BountyUrls, infringing \in BountyUrls, rpc1 \in BOOLEAN,
        rpc2 \in BOOLEAN :
       SubmitInfringementReport(original, infringing, rpc1, rpc2)
  /\ UNCHANGED exceptBounty

LinkRecorded ==
  /\ \E url \in BountyUrls : RecordLink(url)
  /\ UNCHANGED exceptBounty

WithdrawalRequested ==
  /\ \E address \in Addresses : WithdrawReporterBounty(address)
  /\ UNCHANGED exceptBounty

(***************************************************************************)
(* Specifications: one per component. The objects of the other components  *)
(* stay as constructed, with everything configured.                        *)
(***************************************************************************)
TxConfigured == account
MgrConfigured == m_account /\ m_has_gp
IpfsConfigured == pinata_api_key /\ pinata_api_secret /\ web3_storage_token

Init == InitTx /\ TxConfigured /\ InitMgr /\ MgrConfigured /\ InitIpfs /\ IpfsConfigured /\ InitVer /\ InitAgent /\ InitRetry /\ InitBounty /\ InitWorkflow

\* FilecoinContractInterface
Next ==
  \/ CallStarts
  \/ AttemptStep
  \/ LoopEnds
  \/ ClockTick
  \/ NodeMines

Spec == Init /\ [][Next]_vars

\* FilecoinContractInterface through its operations, with or without account
InitOperations ==
  InitTx /\ InitMgr /\ MgrConfigured /\ InitIpfs /\ IpfsConfigured /\ InitVer /\ InitAgent /\ InitRetry /\ InitBounty /\ InitWorkflow

NextOperations ==
  \/ OperationCalled
  \/ AttemptStep
  \/ LoopEnds
  \/ ClockTick
  \/ NodeMines

SpecOperations == InitOperations /\ [][NextOperations]_vars

\* FilecoinContractInterface._get_nonce
NextNonce ==
  \/ GetNonceCalled
  \/ TimePasses
  \/ NodeAccepts
  \/ NodeMines

SpecNonce == Init /\ [][NextNonce]_vars

\* BlockchainUtils.retry_transaction
NextRetry ==
  \/ RetryCalled
  \/ FuncInvoked

SpecRetry == Init /\ [][NextRetry]_vars

\* BlockchainManager
NextManager ==
  \/ RegisterRepositoryOnchain
  \/ RegisterLink
  \/ FileDmca
  \/ ReportInfringementForBounty
  \/ WithdrawBounty
  \/ CreateFilecoinDeal

InitManager == InitTx /\ TxConfigured /\ InitMgr /\ InitIpfs /\ IpfsConfigured /\ InitVer /\ InitAgent /\ InitRetry /\ InitBounty /\ InitWorkflow

SpecManager == InitManager /\ [][NextManager]_vars

\* EnhancedIPFSManager.upload_to_ipfs
InitUpload == InitTx /\ TxConfigured /\ InitMgr /\ MgrConfigured /\ InitIpfs /\ InitVer /\ InitAgent /\ InitRetry /\ InitBounty /\ InitWorkflow

NextUpload ==
  \/ UploadCalled
  \/ ServiceTried

SpecUpload == InitUpload /\ [][NextUpload]_vars

\* EnhancedIPFSManager._verify_ipfs_content_with_retry
NextVerify ==
  \/ VerifyCalled
  \/ GatewayAnswers

SpecVerify == Init /\ [][NextVerify]_vars

\* CompleteFilecoinAgent
NextAgent ==
  \/ RegistrationRequested
  \/ ScanCalled
  \/ SimilarRepoScanned
  \/ RepoScanned
  \/ BountyReported

SpecAgent == Init /\ [][NextAgent]_vars

\* CompleteFilecoinAgent.run_full_protection_workflow
NextWorkflow ==
  \/ WorkflowCalled
  \/ WorkflowAudited
  \/ WorkflowScanCalled
  \/ SimilarRepoScanned
  \/ RepoScanned
  \/ WorkflowReturned

SpecWorkflow == Init /\ [][NextWorkflow]_vars

\* BountySystem, over a BlockchainManager with or without a wallet
NextBounty ==
  \/ LinkRecorded
  \/ ReportSubmitted
  \/ WithdrawalRequested

SpecBounty == InitManager /\ [][NextBounty]_vars

(***************************************************************************)
(* Claims about _send_transaction_with_retry                               *)
(***************************************************************************)

\* C1: one call builds and submits a transaction at most max_retries times
\* (at most 3 times with the default argument), whatever the node answers.
C1_AttemptsBounded ==
  /\ builds <= max_retries
  /\ submits <= max_retries
  /\ (max_retries = DefaultMaxRetries => builds <= 3 /\ submits <= 3)

\* a call with the default argument that submitted on every attempt
C1_Witness ==
  /\ pc = "done"
  /\ max_retries = DefaultMaxRetries
  /\ builds = DefaultMaxRetries
  /\ submits = DefaultMaxRetries

\* C2: the call returns success=True exactly when one of its attempts obtained
\* a receipt with status 1; a status-0 receipt, or no receipt at all (every
\* attempt raised), gives success=False.
C2_SuccessIffStatus1 ==
  pc = "done" =>
    /\ (result.success <=> 1 \in receipts)
    /\ (0 \in receipts => ~result.success)
    /\ (receipts = {} => ~result.success)

\* a call that succeeded on its third attempt, after two that raised
C2_Witness ==
  /\ pc = "done"
  /\ result.success
  /\ attempt = 2
  /\ receipts = {1}

\* C3: after an attempt raised an error that mentions a nonce the cached nonce
\* is invalidated, and the nonce of the next attempt, in this call or the
\* next, comes from a new transaction-count query, not from the cache.
C3_NonceErrorForcesQuery ==
  /\ (last_err_nonce => nonce_cache = None)
  /\ (prev_err_nonce /\ nonce_used # None => nonce_from = "query")

\* the first attempt of the second call follows a nonce error that ended the
\* first call, and it queried the node
C3_Witness ==
  /\ calls = 2
  /\ pc = "done"
  /\ attempt = 0
  /\ prev_err_nonce
  /\ nonce_used # None
  /\ nonce_from = "query"

\* the node's own steps leave the running call where it is
CallUntouched ==
  UNCHANGED <<nonce_cache, nonce_age, pc, max_retries, attempt, result,
              builds, submits, receipts, slept>>

\* C5: a call with max_retries >= 1 ends by returning a dictionary with a
\* 'success' flag, and no exception of any step of any attempt leaves the call:
\* the call never ends by raising; while it has not returned it can take a
\* step; every step of it returns or moves the loop variable one value further
\* in range(max_retries); and what it returns carries the flag.
C5_ReturnsNeverRaises ==
  /\ [](pc # "raised")
  /\ [](pc = "loop" => attempt <= max_retries /\ ENABLED (AttemptStep \/ LoopEnds))
  /\ [][pc = "loop" => (pc' = "done" \/ attempt' = attempt + 1 \/ CallUntouched)]_vars
  /\ [](pc = "done" => result # NoResult /\ result.success \in BOOLEAN)

\* every attempt of a default call raised in the nonce lookup, and the call
\* returned
C5_Witness ==
  /\ pc = "done"
  /\ max_retries = DefaultMaxRetries
  /\ attempt = DefaultMaxRetries
  /\ builds = 0
  /\ ~result.success

\* C21: when the call fails after its last attempt raised, the error reported
\* is 'Max retries exceeded' exactly when that attempt raised a nonce error,
\* and is that attempt's own message when it raised any other error.
C21_ExhaustedError ==
  (pc = "done" /\ last_error # NoError /\ attempt >= max_retries - 1) =>
    /\ ~result.success
    /\ (result.error = MsgMaxRetries <=> IsNonceError(last_error))
    /\ (~IsNonceError(last_error) => result.error = last_error)

\* a default call whose third attempt was rejected by the contract, after two
\* attempts that were retried
C21_Witness ==
  /\ pc = "done"
  /\ max_retries = DefaultMaxRetries
  /\ attempt = DefaultMaxRetries - 1
  /\ last_error = MsgReverted
  /\ result = [success |-> FALSE, error |-> MsgReverted]

\* C28: the delay between two attempts does not depend on the attempt number:
\* 2 seconds after a nonce error, 1 second after any other error that is
\* followed by another attempt; a call that ends in its first attempt has not
\* slept.
C28_FixedBackoff ==
  /\ (pc = "loop" /\ attempt > 0) =>
       slept = (IF IsNonceError(last_error) THEN 2 ELSE 1)
  /\ (pc = "done" /\ attempt = 0) => slept = 0

\* the third attempt of a call is about to start, one second after the second
\* one was rejected by the contract
C28_Witness ==
  /\ pc = "loop"
  /\ attempt = 2
  /\ max_retries = DefaultMaxRetries
  /\ last_error = MsgReverted
  /\ slept = 1

(***************************************************************************)
(* Claims about BlockchainManager                                          *)
(***************************************************************************)

\* C4: an operation of BlockchainManager that submitted a transaction returns
\* success=True only if the receipt of that transaction has status 1.
C4_SuccessOnlyIfStatus1 ==
  (m_op # "none" /\ m_result.success) => m_receipt = 1

\* C24: when no GitHubRepoProtection contract address is configured,
\* register_repository_onchain does what register_link does: without a wallet
\* it answers 'No wallet configured', with one it builds an addLink
\* transaction of the LinkRegistry contract.
C24_FallbackToLinkRegistry ==
  (m_op = "register_repository_onchain" /\ ~m_has_gp) =>
    IF m_account
    THEN m_fn = "addLink"
    ELSE m_result = [success |-> FALSE, error |-> MsgNoWallet]

\* C12: without an account, register_repository_on_chain, add_link_to_registry
\* and file_dmca_on_chain return success=False with the error 'No account
\* configured for transactions', submit no transaction and neither read nor
\* change the nonce cache.
C12_ReadOnlyRefuses ==
  ~account =>
    /\ calls = 0 /\ builds = 0 /\ submits = 0 /\ accepted_txs = 0
    /\ chainPending = 0 /\ chainLatest = 0
    /\ nonce_cache = None /\ nonce_age = AgeCap
    /\ nonce_from = "none" /\ nonce_used = None
    /\ operation # "none" =>
         /\ operation \in Operations
         /\ pc \in {"done", "idle"}
         /\ result = [success |-> FALSE,
                      error |-> <<"No", "account", "configured", "for", "transactions">>]

\* file_dmca_on_chain has returned in read-only mode
C12_Witness ==
  /\ ~account
  /\ operation = "file_dmca_on_chain"
  /\ pc = "done"
  /\ ~result.success

\* C15: an attempt that fails with an error whose message does not mention a
\* nonce ends the call: the loop goes on to another attempt only after a nonce
\* error.
C15_NoRetryAfterOtherError ==
  (pc = "loop" /\ attempt > 0) => last_err_nonce

\* C16: within one call the node accepts at most one transaction.
C16_AtMostOneAccepted ==
  accepted_txs <= 1

\* C17: the first attempt of a call never uses a nonce for which an earlier
\* call of the interface obtained a receipt.
C17_FirstNonceNotConsumed ==
  first_nonce # None => first_nonce \notin receipted_prev

\* C18: the cached nonce is incremented only after a receipt of status 1, and
\* then by exactly one: after a successful call the cache is the confirmed
\* transaction's nonce plus 1, and a failed call never increments it.
C18_IncrementOnlyOnSuccess ==
  /\ increments = (IF result.success THEN 1 ELSE 0)
  /\ result.success =>
       /\ receipts = {1}
       /\ nonce_cache = nonce_used + 1

\* the second call of the interface succeeded with nonce 1
C18_Witness ==
  /\ pc = "done"
  /\ result.success
  /\ nonce_used = 1
  /\ nonce_cache = 2
  /\ increments = 1

\* C19: after a call that succeeded with nonce n, the first attempt of the
\* next call uses a nonce of at least n + 1, from the cache or from the node.
C19_NextNonceAbove ==
  (prev_success # None /\ first_nonce # None) => first_nonce >= prev_success + 1

\* the call after a success with nonce 0 refreshed its nonce from the node
C19_Witness ==
  /\ prev_success = 0
  /\ first_nonce = 1
  /\ attempt = 1
  /\ nonce_from = "query"

\* C20: _get_nonce queries the node exactly when a refresh is forced, nothing
\* is cached or more than 30 seconds passed since the last successful pending
\* refresh; otherwise it returns the cache unchanged; a refresh whose pending
\* query fails takes the latest count and leaves the refresh time alone.
C20_GetNonceRefresh ==
  q_last # NoQuery =>
    LET q == q_last
        due == q.force \/ q.cache = None \/ q.age > 30 IN
      /\ (q.from = "cache") <=> ~due
      /\ ~due => /\ q.nonce = q.cache
                 /\ q.cache_after = q.cache
                 /\ q.age_after = q.age
      /\ (due /\ q.rpc = "pending") =>
            /\ q.from = "query"
            /\ q.nonce = q.pending
            /\ q.cache_after = q.pending
            /\ q.age_after = 0
      /\ (due /\ q.rpc = "latest") =>
            /\ q.from = "query"
            /\ q.nonce = q.latest
            /\ q.cache_after = q.latest
            /\ q.age_after = q.age

\* a forced refresh of a 12 second old cache fell back to the latest count
C20_Witness ==
  /\ q_last.force
  /\ q_last.rpc = "latest"
  /\ q_last.age = 12
  /\ q_last.age_after = 12
  /\ q_last.cache = 2
  /\ q_last.nonce = 1

\* C14: retry_transaction(func, max_retries) with max_retries >= 1 invokes
\* func at most max_retries times, returns what the first invocation that does
\* not raise returned without invoking func again, and re-raises the last
\* invocation's exception when every invocation raised.
C14_RetryTransaction ==
  r_max_retries >= 1 =>
    LET n == Len(r_log) IN
      /\ n <= r_max_retries
      /\ \A i \in 1..(n - 1) : ~r_log[i].ok
      /\ r_pc = "loop" => (n < r_max_retries /\ ENABLED FuncInvoked)
      /\ r_pc = "returned" =>
           /\ n >= 1
           /\ r_log[n].ok
           /\ r_value = r_log[n].val
      /\ r_pc = "raised" =>
           /\ n = r_max_retries
           /\ ~r_log[n].ok
           /\ r_exc = r_log[n].val
      /\ (n >= 1 /\ r_log[n].ok) => r_pc = "returned"
      /\ (n = r_max_retries /\ ~r_log[n].ok) => r_pc = "raised"

\* C29: retry_transaction waits delay * 2^k seconds after the k-th failed
\* invocation (k from 0) that is followed by another one, so the first wait is
\* delay and every later wait is twice the one before; it does not wait after
\* the last invocation, whether that one returned or raised.
C29_ExponentialBackoff ==
  r_max_retries >= 1 =>
    LET n == Len(r_log)
        w == Len(r_waits)
    IN
      /\ w >= 1 => r_waits[1] = r_delay
      /\ \A i \in 2..w : r_waits[i] = 2 * r_waits[i - 1]
      /\ r_pc = "loop" => w = n
      /\ r_pc \in {"returned", "raised"} => w = n - 1

\* four invocations raised: the waits were 2, 4 and 8 seconds and none followed
\* the fourth
C29_Witness ==
  /\ r_pc = "raised"
  /\ r_delay = DefaultRetryDelay
  /\ Len(r_log) = 4
  /\ r_waits = <<2, 4, 8>>

\* three invocations raised and the third one's exception was re-raised
C14_Witness ==
  /\ r_pc = "raised"
  /\ r_max_retries = 3
  /\ Len(r_log) = 3
  /\ r_log[1].val = "ConnectionError"
  /\ r_exc = "ValueError"
  /\ r_waits = <<2, 4>>

(***************************************************************************)
(* Claims about BountySystem                                               *)
(***************************************************************************)
\* C23: a report whose original URL was found registered and whose infringing
\* URL has a record in the link registry is rejected with 'This infringement
\* has already been reported', before any DMCA generation, upload or
\* transaction.
C23_NoSecondReport ==
  (/\ b_op = "submit_infringement_report"
   /\ b_args.infringing \in b_links
   /\ b_result.error # MsgOriginalNotRegistered) =>
    /\ b_result = [success |-> FALSE, error |-> MsgAlreadyReported]
    /\ b_steps = <<>>
    /\ ~b_sent

\* C27: withdraw_reporter_bounty has a withdrawal transaction submitted only
\* for the address of the configured wallet; for any other address it returns
\* the failure 'Can only withdraw from your own address' and calls nothing.
C27_WithdrawOwnAddressOnly ==
  b_op = "withdraw_reporter_bounty" =>
    /\ b_sent => (m_account /\ b_args.address = WalletAddress /\ m_fn = "withdraw")
    /\ b_args.address # MgrAddress(m_account) =>
         /\ b_result = [success |-> FALSE, error |-> MsgOwnAddress]
         /\ b_steps = <<>>
         /\ ~b_sent

\* a withdrawal asked for another address than the wallet's was refused
C27_Witness ==
  /\ b_op = "withdraw_reporter_bounty"
  /\ m_account
  /\ b_args.address = "0xDeF2"
  /\ b_result = [success |-> FALSE, error |-> MsgOwnAddress]
  /\ ~b_sent

(***************************************************************************)
(* Claims about EnhancedIPFSManager                                        *)
(***************************************************************************)
Rank(service) ==
  CASE service = "pinata" -> 1
    [] service = "web3_storage" -> 2
    [] service = "local_ipfs" -> 3
    [] service = "local_file" -> 4

\* the services the configuration provides
ConfiguredServices ==
  {"local_ipfs", "local_file"}
    \cup (IF pinata_api_key /\ pinata_api_secret THEN {"pinata"} ELSE {})
    \cup (IF web3_storage_token THEN {"web3_storage"} ELSE {})

\* C6: upload_to_ipfs attempts the configured services in the order pinata,
\* web3_storage, local_ipfs, local_file: a service is attempted only after
\* every configured service of higher priority was attempted and failed in
\* the same call, and the call returns what the first successful one returned.
C6_PriorityOrder ==
  /\ \A i \in 1..Len(u_tried) :
       /\ u_tried[i].service \in ConfiguredServices
       /\ \A h \in ConfiguredServices :
            Rank(h) < Rank(u_tried[i].service) =>
              \E j \in 1..(i - 1) : u_tried[j].service = h /\ ~u_tried[j].ok
  /\ u_pc = "done" =>
       /\ Len(u_tried) > 0
       /\ \A j \in 1..Len(u_tried) : u_tried[j].ok <=> j = Len(u_tried)
       /\ LET last == u_tried[Len(u_tried)].service IN
            IF last = "local_file"
            THEN u_result.scheme = "local://"
            ELSE u_result = [scheme |-> "cid", of |-> <<last>>]

\* Pinata and Web3.Storage failed and the local node took the file
C6_Witness ==
  /\ u_pc = "done"
  /\ Len(u_tried) = 3
  /\ u_tried[3] = [service |-> "local_ipfs", ok |-> TRUE]
  /\ u_result = [scheme |-> "cid", of |-> <<"local_ipfs">>]

RemoteServices == {"pinata", "web3_storage", "local_ipfs"}

EndsWith(full, p) ==
  /\ Len(p) <= Len(full)
  /\ SubSeq(full, Len(full) - Len(p) + 1, Len(full)) = p

\* C26: when Pinata accepted the upload and the availability verification
\* that follows failed, upload_to_ipfs returns the hash Pinata reported and has
\* tried no other service.
C26_UnverifiedPinataUploadKept ==
  u_verified = "ok_unverified" =>
    /\ u_pc = "done"
    /\ u_tried = <<[service |-> "pinata", ok |-> TRUE]>>
    /\ u_result = [scheme |-> "cid", of |-> <<"pinata">>]
    /\ u_error = NoError

\* an upload through Pinata has returned although its verification failed
C26_Witness ==
  /\ u_pc = "done"
  /\ u_verified = "ok_unverified"
  /\ service_priority[1] = "pinata"
  /\ u_result.of = <<"pinata">>

\* C7: for a file that exists upload_to_ipfs never raises; when every remote
\* service failed it returns 'local://' with the file's absolute path, and the
\* 'All IPFS upload methods failed' error is never produced.
C7_LocalFallback ==
  u_exists =>
    /\ u_pc # "raised"
    /\ u_error # MsgAllFailed
    /\ (u_pc = "done" /\ \A i \in 1..Len(u_tried) :
                           u_tried[i].service \in RemoteServices => ~u_tried[i].ok)
         => /\ u_result.scheme = "local://"
            /\ u_result.of[1] = "/"
            /\ EndsWith(u_result.of, u_path)

\* all three remote services failed for a file named by a relative path
C7_Witness ==
  /\ u_exists
  /\ u_pc = "done"
  /\ Len(u_tried) = 4
  /\ u_path = <<"dmca.pdf">>
  /\ u_result = [scheme |-> "local://", of |-> <<"/", "work", "dmca.pdf">>]

\* C8 as stated: at most max_retries rounds of at most two requests, True as
\* soon as a gateway answers 200, False when no request answered 200.
C8_Original ==
  /\ v_requests <= 2 * v_max_retries
  /\ v_round_requests <= 2
  /\ (v_pc = "poll" => ~v_saw200)
  /\ (v_pc = "done" /\ v_saw200 => v_result)
  /\ (v_pc = "done" /\ ~v_saw200 => ~v_result)

\* C8 (amended): _verify_ipfs_content_with_retry terminates after at most
\* max_retries rounds of at most two gateway requests each. For an identifier
\* that is not 'local://' it returns True as soon as one gateway answers 200
\* and False when no request answered 200; a 'local://' identifier is answered
\* without any gateway request, by whether the file it names exists.
C8_VerifyBounded ==
  /\ v_requests <= 2 * v_max_retries
  /\ v_round_requests <= 2
  /\ v_sleeps < Max(v_max_retries, 1)
  /\ (v_pc = "poll" =>
        /\ v_attempt < v_max_retries
        /\ v_requests < 2 * v_max_retries
        /\ ENABLED GatewayAnswers)
  /\ \A i \in 1..Len(v_responses) : v_responses[i] = "200" =>
        /\ i = Len(v_responses)
        /\ v_pc = "done"
        /\ v_result
  /\ (v_pc = "done" /\ v_hash.prefix # "local://" =>
        (v_result <=> \E i \in 1..Len(v_responses) : v_responses[i] = "200"))
  /\ (v_pc = "done" /\ v_hash.prefix = "local://" =>
        /\ v_requests = 0
        /\ v_result = v_file)

\* the second gateway of the last round answers 200
C8_Witness ==
  /\ v_pc = "done"
  /\ v_hash = [prefix |-> "Qm", len |-> 46]
  /\ v_max_retries = 3
  /\ v_requests = 6
  /\ v_responses[6] = "200"
  /\ v_result

\* C13: the priority list holds 'pinata' only when key and secret are both
\* configured, and then first; 'web3_storage' only when its token is
\* configured, after 'pinata'; and it always ends with 'local_ipfs' followed
\* by 'local_file'.
C13_PriorityList ==
  LET sp == service_priority
      n == Len(sp)
      at(x) == {i \in 1..n : sp[i] = x} IN
    /\ n >= 2
    /\ sp[n - 1] = "local_ipfs"
    /\ sp[n] = "local_file"
    /\ at("pinata") # {} => (pinata_api_key /\ pinata_api_secret /\ sp[1] = "pinata")
    /\ at("web3_storage") # {} =>
         /\ web3_storage_token
         /\ \A i \in at("web3_storage"), j \in at("pinata") : j < i

\* an upload ran on a manager configured with a Pinata key, no secret, and a
\* Web3.Storage token
C13_Witness ==
  /\ pinata_api_key /\ ~pinata_api_secret /\ web3_storage_token
  /\ service_priority = <<"web3_storage", "local_ipfs", "local_file">>
  /\ u_pc = "done"

(***************************************************************************)
(* Claims about CompleteFilecoinAgent                                      *)
(***************************************************************************)
\* C11: whenever a repository with the same cleaned URL is registered on
\* chain, register_repository_complete returns the failure 'Repository
\* already registered' and generates no license, uploads nothing and sends no
\* blockchain transaction.
C11_NoDuplicateRegistration ==
  (a_op = "register" /\ a_reg.on_chain) =>
    /\ a_result = [success |-> FALSE,
                   error |-> <<"Repository", "already", "registered">>]
    /\ ~a_reg.license
    /\ ~a_reg.uploaded
    /\ a_reg.chain_calls = 0

\* C25: run_full_protection_workflow calls registration, then the security
\* audit, then the violation scan; the audit and the scan are called only
\* after a registration that succeeded, and a failed registration makes the
\* workflow return 'Registration failed' with neither of them called.
C25_WorkflowOrder ==
  /\ Len(w_steps) <= Len(WorkflowSteps)
  /\ w_steps = SubSeq(WorkflowSteps, 1, Len(w_steps))
  /\ Len(w_steps) >= 2 => w_registration
  /\ (w_pc = "done" /\ ~w_registration) =>
       /\ w_steps = <<"registration">>
       /\ w_result = [success |-> FALSE, error |-> MsgRegistrationFailed]
  /\ (w_pc = "done" /\ w_registration) =>
       /\ w_steps = WorkflowSteps
       /\ w_result.success

\* a workflow whose registration met a registered URL has returned
C25_Witness ==
  /\ w_pc = "done"
  /\ a_result = [success |-> FALSE, error |-> MsgAlreadyRegistered]
  /\ w_steps = <<"registration">>
  /\ ~w_result.success

\* C22: a violation that scan_and_report_violations counts as filed (its
\* _generate_and_file_dmca call returned success, so an entry with
\* blockchain_filed = True was appended) had its DMCA filing transaction
\* succeed on chain.
C22_FiledOnlyIfTxSucceeded ==
  (a_op = "scan" /\ a_violations > 0 /\ a_dmca.success) => a_dmca.filed

\* C9: scan_and_report_violations generates and files a DMCA notice for a
\* candidate only if its similarity score is strictly greater than 0.7 and its
\* URL differs from the protected repository's URL.
C9_ScanFilesOnlyAboveThreshold ==
  a_op = "scan" =>
    /\ (a_dmca_calls > 0 <=> a_dmca # NoDmca)
    /\ a_violations <= a_dmca_calls
    /\ a_dmca # NoDmca =>
         /\ a_dmca.score > 70
         /\ a_dmca.url # a_dmca.original
         /\ a_dmca.original \in {Registered[i] : i \in 1..Len(Registered)}

\* a candidate scoring 0.71 has had its notice filed
C9_Witness ==
  /\ a_op = "scan"
  /\ a_dmca.filed
  /\ a_dmca.score = 71
  /\ a_violations = 1

====
